---- MODULE Spec2Model ----
(***************************************************************************)
(* WSFS_TransactionsToCSV.py: extraction of transactions from the text of  *)
(* the pages of a bank statement (extract_data_from_pdf) and the grouping  *)
(* and output of main.                                                     *)
(*                                                                         *)
(* Text is modelled as it is: a string is a sequence of one-character      *)
(* strings, a line is a string, a page is the sequence of lines that       *)
(* text.split('\n') yields.                                                *)
(***************************************************************************)
EXTENDS Integers, Sequences, FiniteSets, TLC

(***************************************************************************)
(* Strings                                                                 *)
(***************************************************************************)

\* The characters of the model in code-point order (str comparison).
CodePoints ==
  << " ", "+", ",", "-", ".", "/",
     "0", "1", "2", "3", "4", "5", "6", "7", "8", "9",
     "A", "B", "C", "D", "E", "F", "G", "H", "I", "J", "K", "L", "M",
     "N", "O", "P", "Q", "R", "S", "T", "U", "V", "W", "X", "Y", "Z",
     "a", "b", "c", "d", "e", "f", "g", "h", "i", "j", "k", "l", "m",
     "n", "o", "p", "q", "r", "s", "t", "u", "v", "w", "x", "y", "z" >>

OrdOf ==
  [c \in {CodePoints[i] : i \in 1..Len(CodePoints)} |->
     CHOOSE i \in 1..Len(CodePoints) : CodePoints[i] = c]

\* ord(c), up to the offset of the first character
Ord(c) == OrdOf[c]

DigitChars == {"0", "1", "2", "3", "4", "5", "6", "7", "8", "9"}

\* c.isdigit() for one character
IsDigitCh(c) == c \in DigitChars

DigitVal(c) == Ord(c) - Ord("0")

\* s.isdigit(): non-empty and digits only
StrIsDigit(s) == Len(s) > 0 /\ \A i \in 1..Len(s) : IsDigitCh(s[i])

\* ''.join(c for c in s if c.isdigit())
OnlyDigits(s) == SelectSeq(s, IsDigitCh)

\* s.replace(',', '')
StripCommas(s) == SelectSeq(s, LAMBDA c : c # ",")

\* int(s) for a string of digits (int raises ValueError on the others)
RECURSIVE ToInt(_)
ToInt(s) ==
  IF Len(s) = 0 THEN 0
  ELSE 10 * ToInt(SubSeq(s, 1, Len(s) - 1)) + DigitVal(s[Len(s)])

\* s.upper() on the letters of the model
Upper(s) ==
  [i \in 1..Len(s) |->
     IF Ord(s[i]) >= Ord("a") /\ Ord(s[i]) <= Ord("z")
     THEN CodePoints[Ord(s[i]) - Ord("a") + Ord("A")]
     ELSE s[i]]

\* sub in s
Contains(s, sub) ==
  \E i \in 0..(Len(s) - Len(sub)) :
     \A j \in 1..Len(sub) : s[i + j] = sub[j]

\* s.split(sep) for a one-character sep: the segments between the
\* separators, empty ones included
RECURSIVE SplitOn(_, _)
SplitOn(s, sep) ==
  IF \A i \in 1..Len(s) : s[i] # sep THEN << s >>
  ELSE LET k == CHOOSE i \in 1..Len(s) :
                   s[i] = sep /\ \A j \in 1..(i - 1) : s[j] # sep
       IN  << SubSeq(s, 1, k - 1) >> \o SplitOn(SubSeq(s, k + 1, Len(s)), sep)

\* s.split(): the maximal runs of non-blank characters
Split(s) == SelectSeq(SplitOn(s, " "), LAMBDA w : Len(w) > 0)

\* sep.join(parts)
RECURSIVE Join(_, _)
Join(parts, sep) ==
  IF Len(parts) = 0 THEN << >>
  ELSE IF Len(parts) = 1 THEN parts[1]
  ELSE parts[1] \o sep \o Join(Tail(parts), sep)

\* a < b for two strings (code-point order, a proper prefix first)
RECURSIVE StrLess(_, _)
StrLess(a, b) ==
  IF Len(b) = 0 THEN FALSE
  ELSE IF Len(a) = 0 THEN TRUE
  ELSE IF a[1] # b[1] THEN Ord(a[1]) < Ord(b[1])
  ELSE StrLess(Tail(a), Tail(b))

\* parts[i] for a Python index i, negative ones counting from the end
PyAt(parts, i) == IF i < 0 THEN parts[Len(parts) + i + 1] ELSE parts[i + 1]

\* parts[lo:hi] for Python indices
PySlice(parts, lo, hi) ==
  LET n    == Len(parts)
      norm(i) == IF i < 0 THEN (IF n + i < 0 THEN 0 ELSE n + i)
                 ELSE (IF i > n THEN n ELSE i)
  IN  SubSeq(parts, norm(lo) + 1, norm(hi))

\* an unsigned decimal: digits with at most one point and at least one digit
IsUnsignedDecimal(s) ==
  /\ \A i \in 1..Len(s) : IsDigitCh(s[i]) \/ s[i] = "."
  /\ Cardinality({i \in 1..Len(s) : s[i] = "."}) <= 1
  /\ \E i \in 1..Len(s) : IsDigitCh(s[i])

\* s without one leading sign
Unsigned(s) == IF Len(s) > 0 /\ s[1] \in {"+", "-"} THEN Tail(s) ELSE s

\* float(s) does not raise: [sign] decimal [E [sign] digits], or
\* [sign] inf | infinity | nan in any case (the model's characters have
\* neither the underscore nor white space inside a token)
IsFloat(s) ==
  LET u == Upper(Unsigned(s))
      e == {i \in 1..Len(u) : u[i] = "E"}
  IN  \/ u \in { <<"I","N","F">>, <<"N","A","N">>,
                 <<"I","N","F","I","N","I","T","Y">> }
      \/ IsUnsignedDecimal(u)
      \/ /\ Cardinality(e) = 1
         /\ LET k == CHOOSE i \in e : TRUE
            IN  /\ IsUnsignedDecimal(SubSeq(u, 1, k - 1))
                /\ StrIsDigit(Unsigned(SubSeq(u, k + 1, Len(u))))

(***************************************************************************)
(* extract_data_from_pdf: the work on one line                             *)
(***************************************************************************)

S_Date        == << "D", "a", "t", "e" >>
S_Number      == << "N", "u", "m", "b", "e", "r" >>
S_Description == << "D", "e", "s", "c", "r", "i", "p", "t", "i", "o", "n" >>
S_Twenty      == << "2", "0" >>
S_Slash       == << "/" >>
S_Space       == << " " >>
S_Empty       == << >>

\* 'Date' in line and 'Number' in line and 'Description' in line
IsHeaderLine(line) ==
  Contains(line, S_Date) /\ Contains(line, S_Number) /\ Contains(line, S_Description)

\* (mutant) the header line is looked for but the lines are not skipped
StartIdx_NoSkip(lines) == 0

\* start_idx: one past the first header line of the page, 0 when the page
\* has none (a count of lines: lines[start_idx:] are the lines after it)
StartIdx(lines) ==
  IF \E i \in 1..Len(lines) : IsHeaderLine(lines[i])
  THEN CHOOSE i \in 1..Len(lines) :
         IsHeaderLine(lines[i]) /\ \A j \in 1..(i - 1) : ~IsHeaderLine(lines[j])
  ELSE 0

\* not line.strip() or 'Date' in line and 'Number' in line
IsSkippedLine(line) ==
  Split(line) = << >> \/ (Contains(line, S_Date) /\ Contains(line, S_Number))

\* parts[0][0].isdigit()
StartsWithDigit(parts) == IsDigitCh(parts[1][1])

\* (mutant) the century is 19
ExpandYear_1900(yy) == IF Len(yy) = 2 THEN << "1", "9" >> \o yy ELSE yy

\* a two-digit year gets the century 20, any other year stays as it is
ExpandYear(yy) == IF Len(yy) = 2 THEN S_Twenty \o yy ELSE yy

\* (mutant) the month is not checked against 12
InRange_NoMonthLimit(mm_int, dd_int) ==
  1 <= mm_int /\ 1 <= dd_int /\ dd_int <= 31

\* 1 <= mm_int <= 12 and 1 <= dd_int <= 31
InRange(mm_int, dd_int) ==
  1 <= mm_int /\ mm_int <= 12 /\ 1 <= dd_int /\ dd_int <= 31

\* The fields of the date token, before validation: what the branches of
\* the try block assign to mm, dd, yyyy.  err is "parse" where the code
\* raises ValueError (unpacking date.split('/')), "format" where it warns
\* about the number of digits.
DateFields(date) ==
  IF Contains(date, S_Slash)
  THEN LET segs == SplitOn(date, "/")
       IN  IF Len(segs) # 3
           THEN [err |-> "parse", mm |-> S_Empty, dd |-> S_Empty, yyyy |-> S_Empty]
           ELSE [err |-> "none",
                 mm   |-> OnlyDigits(segs[1]),
                 dd   |-> OnlyDigits(segs[2]),
                 yyyy |-> ExpandYear(OnlyDigits(segs[3]))]
  ELSE LET date_clean == OnlyDigits(date)
       IN  IF Len(date_clean) = 8
           THEN [err |-> "none",
                 mm   |-> SubSeq(date_clean, 1, 2),
                 dd   |-> SubSeq(date_clean, 3, 4),
                 yyyy |-> SubSeq(date_clean, 5, 8)]
           ELSE IF Len(date_clean) = 6
           THEN [err |-> "none",
                 mm   |-> SubSeq(date_clean, 1, 2),
                 dd   |-> SubSeq(date_clean, 3, 4),
                 yyyy |-> S_Twenty \o SubSeq(date_clean, 5, 6)]
           ELSE [err |-> "format", mm |-> S_Empty, dd |-> S_Empty, yyyy |-> S_Empty]

\* The try block as a whole: err "none" and the date mm/dd/yyyy, or the
\* warning the line is skipped with ("format", "range", or "parse" for
\* the ValueError of the unpacking or of int('')).
NormalizeDate(date) ==
  LET f == DateFields(date)
  IN  IF f.err # "none" THEN [err |-> f.err, date |-> S_Empty]
      ELSE IF ~StrIsDigit(f.mm) \/ ~StrIsDigit(f.dd)
      THEN [err |-> "parse", date |-> S_Empty]
      ELSE IF ~InRange(ToInt(f.mm), ToInt(f.dd))
      THEN [err |-> "range", date |-> S_Empty]
      ELSE [err |-> "none", date |-> f.mm \o S_Slash \o f.dd \o S_Slash \o f.yyyy]

\* (mutant) any second token is taken for a check number
HasCheckNumber_AnyToken(parts) == Len(parts) > 1

\* len(parts) > 1 and parts[current_idx].isdigit(), with current_idx = 1
HasCheckNumber(parts) == Len(parts) > 1 /\ StrIsDigit(parts[2])

\* current_idx after the check-number step
CurrentIdx(parts) == IF HasCheckNumber(parts) THEN 2 ELSE 1

\* check_number
CheckNumber(parts) == IF HasCheckNumber(parts) THEN parts[2] ELSE S_Empty

\* float(parts[amount_idx].replace(',', '')) does not raise
IsAmountToken(tok) == IsFloat(StripCommas(tok))

\* (mutant) the loop does not stop at the first numeric token: it goes on
\* to the leftmost one
RECURSIVE ScanAmount_Leftmost(_, _)
ScanAmount_Leftmost(parts, amount_idx) ==
  IF ~(-amount_idx <= Len(parts))
  THEN [idx |-> amount_idx, found |-> FALSE]
  ELSE LET rest == ScanAmount_Leftmost(parts, amount_idx - 1)
       IN  IF rest.found THEN rest
           ELSE IF IsAmountToken(PyAt(parts, amount_idx))
           THEN [idx |-> amount_idx, found |-> TRUE]
           ELSE rest

\* (mutant) the loop condition lets the index go one past the first
\* token, where the IndexError is caught and the index lowered once more
RECURSIVE ScanAmount_OneMore(_, _)
ScanAmount_OneMore(parts, amount_idx) ==
  IF ~(-amount_idx <= Len(parts) + 1)
  THEN [idx |-> amount_idx, found |-> FALSE]
  ELSE IF -amount_idx <= Len(parts) /\ IsAmountToken(PyAt(parts, amount_idx))
  THEN [idx |-> amount_idx, found |-> TRUE]
  ELSE ScanAmount_OneMore(parts, amount_idx - 1)

\* The while loop from amount_idx (initially -2): the index it ends with,
\* and whether it ended by break.  The index is never out of range inside
\* the loop, so IndexError does not occur.
RECURSIVE ScanAmount(_, _)
ScanAmount(parts, amount_idx) ==
  IF ~(-amount_idx <= Len(parts))
  THEN [idx |-> amount_idx, found |-> FALSE]
  ELSE IF IsAmountToken(PyAt(parts, amount_idx))
  THEN [idx |-> amount_idx, found |-> TRUE]
  ELSE ScanAmount(parts, amount_idx - 1)

\* (mutant) the token goes to the deposit
AssignAmount_ToDeposit(withdrawal, deposit, tok) ==
  IF deposit = S_Empty THEN << withdrawal, tok >> ELSE << withdrawal, deposit >>

\* The assignments of the try body for a numeric token: the pair
\* <<withdrawal, deposit>> after them.
AssignAmount(withdrawal, deposit, tok) ==
  IF withdrawal = S_Empty THEN << tok, deposit >>
  ELSE IF deposit = S_Empty THEN << S_Empty, withdrawal >>
  ELSE << withdrawal, deposit >>

\* desc_end = amount_idx if abs(amount_idx) < len(parts) else -1
DescEnd(parts, amount_idx) ==
  IF -amount_idx < Len(parts) THEN amount_idx ELSE -1

\* ' '.join(parts[current_idx:desc_end])
Description(parts, current_idx, desc_end) ==
  Join(PySlice(parts, current_idx, desc_end), S_Space)

\* The transaction of a line whose date is valid.
MakeTransaction(parts, date) ==
  LET scan == ScanAmount(parts, -2)
      wd   == IF scan.found
              THEN AssignAmount(S_Empty, S_Empty, PyAt(parts, scan.idx))
              ELSE << S_Empty, S_Empty >>
  IN  [Date        |-> date,
       Number      |-> CheckNumber(parts),
       Description |-> Description(parts, CurrentIdx(parts), DescEnd(parts, scan.idx)),
       Withdrawals |-> wd[1],
       Deposits    |-> wd[2],
       Balance     |-> PyAt(parts, -1)]

\* The body of the loop over lines[start_idx:] for one line: what it
\* appends ("txn") or why it moves on ("blank", "nodigit", or a warning).
LineResult(line) ==
  IF IsSkippedLine(line) THEN [kind |-> "blank"]
  ELSE LET parts == Split(line)
       IN  IF ~StartsWithDigit(parts) THEN [kind |-> "nodigit"]
           ELSE LET d == NormalizeDate(parts[1])
                IN  IF d.err # "none" THEN [kind |-> d.err]
                    ELSE [kind |-> "txn", txn |-> MakeTransaction(parts, d.date)]

(***************************************************************************)
(* main: dates, amounts, sorting and the two grouping passes               *)
(***************************************************************************)

\* calendar.isleap
IsLeap(y) == (y % 4 = 0 /\ y % 100 # 0) \/ y % 400 = 0

DaysInMonth(y, m) ==
  IF m = 2 THEN (IF IsLeap(y) THEN 29 ELSE 28)
  ELSE IF m \in {4, 6, 9, 11} THEN 30 ELSE 31

\* pd.to_datetime(date, format='%m/%d/%Y') on one value: %m and %d take
\* one or two digits, %Y exactly four, the date has to exist in the
\* calendar and to lie in the range of a nanosecond timestamp
\* (1677-09-22 .. 2262-04-11); ok is FALSE where it raises ValueError.
ToDatetime(date) ==
  LET segs == SplitOn(date, "/")
  IN  IF \/ Len(segs) # 3
         \/ ~StrIsDigit(segs[1]) \/ Len(segs[1]) > 2
         \/ ~StrIsDigit(segs[2]) \/ Len(segs[2]) > 2
         \/ ~StrIsDigit(segs[3]) \/ Len(segs[3]) # 4
      THEN [ok |-> FALSE, y |-> 0, m |-> 0, d |-> 0]
      ELSE LET y == ToInt(segs[3])
               m == ToInt(segs[1])
               d == ToInt(segs[2])
               n == (y * 100 + m) * 100 + d
           IN  IF /\ m \in 1..12
                  /\ d >= 1 /\ d <= DaysInMonth(y, m)
                  /\ n >= 16770922 /\ n <= 22620411
               THEN [ok |-> TRUE, y |-> y, m |-> m, d |-> d]
               ELSE [ok |-> FALSE, y |-> 0, m |-> 0, d |-> 0]

\* the order of the dates as the strings MM/DD/YYYY would sort
DateLess_AsText(a, b) ==
  (a.m * 100 + a.d) * 10000 + a.y < (b.m * 100 + b.d) * 10000 + b.y

\* a < b for two timestamps
DateLess(a, b) ==
  (a.y * 100 + a.m) * 100 + a.d < (b.y * 100 + b.m) * 100 + b.d

NaN == [nan |-> TRUE, v |-> 0]

\* pd.to_numeric(s.replace(',', ''), errors='coerce') on one value, in
\* hundredths: NaN for a string that is no number, the empty string
\* included.  The numbers of the model are plain decimals with at most
\* two decimal places.
ToNumeric(s) ==
  LET t == StripCommas(s)
      u == Unsigned(t)
  IN  IF ~IsUnsignedDecimal(u) THEN NaN
      ELSE LET segs  == SplitOn(u, ".")
               whole == ToInt(segs[1])
               frac  == IF Len(segs) > 1 THEN segs[2] ELSE S_Empty
               cents == IF Len(frac) = 0 THEN 0
                        ELSE IF Len(frac) = 1 THEN 10 * ToInt(frac)
                        ELSE ToInt(SubSeq(frac, 1, 2))
               mag   == 100 * whole + cents
           IN  [nan |-> FALSE, v |-> IF t[1] = "-" THEN -mag ELSE mag]

\* pd.DataFrame(transactions) with the Date, Withdrawals and Deposits
\* columns converted: row i has the index label i - 1
MakeFrame(txns) ==
  [i \in 1..Len(txns) |->
     [label       |-> i - 1,
      Date        |-> ToDatetime(txns[i].Date),
      Number      |-> txns[i].Number,
      Description |-> txns[i].Description,
      Withdrawals |-> ToNumeric(txns[i].Withdrawals),
      Deposits    |-> ToNumeric(txns[i].Deposits),
      Balance     |-> txns[i].Balance]]

\* the order of sort_values(['Description', 'Date']): rows that agree on
\* both keep their order (the sort on several keys is stable)
RowBefore(a, b) ==
  \/ StrLess(a.Description, b.Description)
  \/ /\ a.Description = b.Description
     /\ \/ DateLess(a.Date, b.Date)
        \/ (~DateLess(b.Date, a.Date) /\ a.label < b.label)

\* df.sort_values(['Description', 'Date'], ascending=[True, True])
RECURSIVE SortValues(_)
SortValues(rows) ==
  IF Len(rows) = 0 THEN << >>
  ELSE LET k == CHOOSE i \in 1..Len(rows) :
                   \A j \in 1..Len(rows) : j # i => RowBefore(rows[i], rows[j])
       IN  << rows[k] >> \o
           SortValues([i \in 1..(Len(rows) - 1) |->
                          IF i < k THEN rows[i] ELSE rows[i + 1]])

\* (mutant) the key is the first word alone
get_key_words_OneWord(description) ==
  LET words == Split(description)
  IN  IF Len(words) >= 2 THEN words[1] ELSE description

\* get_key_words
get_key_words(description) ==
  LET words == Split(description)
  IN  IF Len(words) >= 2 THEN Join(SubSeq(words, 1, 2), S_Space)
      ELSE description

\* the keys of a groupby in the order it iterates them: ascending
RECURSIVE SortedKeys(_)
SortedKeys(keys) ==
  IF keys = {} THEN << >>
  ELSE LET k == CHOOSE x \in keys : \A y \in keys : y # x => StrLess(x, y)
       IN  << k >> \o SortedKeys(keys \ {k})

\* group[col].sum(): NaN skipped, 0 for no value at all
RECURSIVE SumColumn(_)
SumColumn(vals) ==
  IF Len(vals) = 0 THEN 0
  ELSE (IF vals[1].nan THEN 0 ELSE vals[1].v) + SumColumn(Tail(vals))

\* total if total > 0 else ''
RenderTotal(total) ==
  IF total > 0 THEN [blank |-> FALSE, v |-> total] ELSE [blank |-> TRUE, v |-> 0]

\* the dictionary appended to summary_data for one group: kind and key are
\* the two texts the Description is formatted from, count is len(group);
\* index is group.index, the labels the pass adds to processed_descriptions
SummaryRow(kind, key, group, order) ==
  [kind        |-> kind,
   key         |-> key,
   count       |-> Len(group),
   index       |-> {group[i].label : i \in 1..Len(group)},
   Withdrawals |-> RenderTotal(SumColumn([i \in 1..Len(group) |-> group[i].Withdrawals])),
   Deposits    |-> RenderTotal(SumColumn([i \in 1..Len(group) |-> group[i].Deposits])),
   Sort_Order  |-> order]

\* (mutant) a group of one row counts as a group
IsGroup_Any(group) == Len(group) > 0

\* len(group) > 1
IsGroup(group) == Len(group) > 1

\* for desc, group in df.groupby('Description'): the summaries of the
\* groups of more than one row, in the order of iteration
ExactSummaries(frame) ==
  LET keys  == SortedKeys({frame[i].Description : i \in 1..Len(frame)})
      grp(k) == SelectSeq(frame, LAMBDA r : r.Description = keys[k])
      kept  == SelectSeq([k \in 1..Len(keys) |-> k], LAMBDA k : IsGroup(grp(k)))
  IN  [j \in 1..Len(kept) |-> SummaryRow("exact", keys[kept[j]], grp(kept[j]), 1)]

\* (mutant) the first pass marks no row as processed
ExactProcessed_None(frame) == {}

\* processed_descriptions after the first pass: the index labels of the
\* rows of the groups of more than one row
ExactProcessed(frame) ==
  {frame[i].label : i \in {i \in 1..Len(frame) :
       IsGroup(SelectSeq(frame, LAMBDA r : r.Description = frame[i].Description))}}

\* (mutant) the rows of the first pass are not taken out
Remaining_All(frame, processed) == frame

\* df.loc[~df.index.isin(processed_descriptions)]
Remaining(frame, processed) ==
  SelectSeq(frame, LAMBDA r : r.label \notin processed)

\* for key_words, group in partial_groups: as above, by get_key_words
PartialSummaries(rest) ==
  LET keys  == SortedKeys({get_key_words(rest[i].Description) : i \in 1..Len(rest)})
      grp(k) == SelectSeq(rest, LAMBDA r : get_key_words(r.Description) = keys[k])
      kept  == SelectSeq([k \in 1..Len(keys) |-> k], LAMBDA k : IsGroup(grp(k)))
  IN  [j \in 1..Len(kept) |-> SummaryRow("partial", keys[kept[j]], grp(kept[j]), 2)]

\* the index labels the second pass adds to processed_descriptions
PartialProcessed(rest) ==
  {rest[i].label : i \in {i \in 1..Len(rest) :
       IsGroup(SelectSeq(rest, LAMBDA r :
                 get_key_words(r.Description) = get_key_words(rest[i].Description)))}}

\* summary_df.sort_values('Sort_Order'): the rows by precedence.  The sort
\* on one column is the default quicksort, which is not stable: the order
\* of the rows of one precedence is the one the build's sort leaves, any
\* of them here.
SortSummary(rows) ==
  LET n     == Len(rows)
      perms == {p \in [1..n -> 1..n] : \A i, j \in 1..n : i # j => p[i] # p[j]}
  IN  {[i \in 1..n |-> rows[p[i]]] : p \in
         {q \in perms : \A i, j \in 1..n :
             i < j => rows[q[i]].Sort_Order <= rows[q[j]].Sort_Order}}

\* final_df: the rows of df, then, if there is a summary, a blank row and
\* the rows of the sorted summary
FinalFrame(frame, summary_df) ==
  IF Len(summary_df) > 0
  THEN [i \in 1..Len(frame) |-> [row |-> "data", data |-> frame[i]]]
       \o << [row |-> "blank"] >>
       \o [i \in 1..Len(summary_df) |-> [row |-> "summary", data |-> summary_df[i]]]
  ELSE [i \in 1..Len(frame) |-> [row |-> "data", data |-> frame[i]]]

(***************************************************************************)
(* Statement lines                                                         *)
(***************************************************************************)

\* "Date Number Description Balance"
L_Header ==
  << "D", "a", "t", "e", " ", "N", "u", "m", "b", "e", "r", " ", "D", "e", "s", "c", "r", "i", "p", "t", "i", "o", "n", " ", "B", "a", "l", "a", "n", "c", "e" >>

\* "01/15/24 123 ELECTRONIC PAYMENT VISA 45.67 1234.56"
L_Example ==
  << "0", "1", "/", "1", "5", "/", "2", "4", " ", "1", "2", "3", " ", "E", "L", "E", "C", "T", "R", "O", "N", "I", "C", " ", "P", "A", "Y", "M", "E", "N", "T", " ", "V", "I", "S", "A", " ", "4", "5", ".", "6", "7", " ", "1", "2", "3", "4", ".", "5", "6" >>

\* "02/03/24 COFFEE 3.50 1231.06"
L_Second ==
  << "0", "2", "/", "0", "3", "/", "2", "4", " ", "C", "O", "F", "F", "E", "E", " ", "3", ".", "5", "0", " ", "1", "2", "3", "1", ".", "0", "6" >>

\* "13/15/24 FOO 1.00 2.00"
L_BadMonth ==
  << "1", "3", "/", "1", "5", "/", "2", "4", " ", "F", "O", "O", " ", "1", ".", "0", "0", " ", "2", ".", "0", "0" >>

\* "01/32/24 FOO 1.00 2.00"
L_BadDay ==
  << "0", "1", "/", "3", "2", "/", "2", "4", " ", "F", "O", "O", " ", "1", ".", "0", "0", " ", "2", ".", "0", "0" >>

\* "01152024 FOO 9.00"
L_Digits8 ==
  << "0", "1", "1", "5", "2", "0", "2", "4", " ", "F", "O", "O", " ", "9", ".", "0", "0" >>

\* "011524 FOO 1,234.50 9.00"
L_Digits6 ==
  << "0", "1", "1", "5", "2", "4", " ", "F", "O", "O", " ", "1", ",", "2", "3", "4", ".", "5", "0", " ", "9", ".", "0", "0" >>

\* "0115 FOO 1.00 2.00"
L_Digits4 ==
  << "0", "1", "1", "5", " ", "F", "O", "O", " ", "1", ".", "0", "0", " ", "2", ".", "0", "0" >>

\* "01-15-24 FOO 1.00 2.00"
L_Dashes ==
  << "0", "1", "-", "1", "5", "-", "2", "4", " ", "F", "O", "O", " ", "1", ".", "0", "0", " ", "2", ".", "0", "0" >>

\* "01/15 FOO 1.00 2.00"
L_TwoSegments ==
  << "0", "1", "/", "1", "5", " ", "F", "O", "O", " ", "1", ".", "0", "0", " ", "2", ".", "0", "0" >>

\* "01//24 FOO 1.00 2.00"
L_NoDay ==
  << "0", "1", "/", "/", "2", "4", " ", "F", "O", "O", " ", "1", ".", "0", "0", " ", "2", ".", "0", "0" >>

\* "01/15/ FOO 1.00 2.00"
L_NoYear ==
  << "0", "1", "/", "1", "5", "/", " ", "F", "O", "O", " ", "1", ".", "0", "0", " ", "2", ".", "0", "0" >>

\* "01/15/1999 FOO 1.00 2.00"
L_Year1999 ==
  << "0", "1", "/", "1", "5", "/", "1", "9", "9", "9", " ", "F", "O", "O", " ", "1", ".", "0", "0", " ", "2", ".", "0", "0" >>

\* "01151999 FOO BAR 1.00 2.00"
L_Digits1999 ==
  << "0", "1", "1", "5", "1", "9", "9", "9", " ", "F", "O", "O", " ", "B", "A", "R", " ", "1", ".", "0", "0", " ", "2", ".", "0", "0" >>

\* "02/30/24 FOO 1.00 2.00"
L_Feb30 ==
  << "0", "2", "/", "3", "0", "/", "2", "4", " ", "F", "O", "O", " ", "1", ".", "0", "0", " ", "2", ".", "0", "0" >>

\* "02/29/23 FOO 1.00 2.00"
L_Feb29 ==
  << "0", "2", "/", "2", "9", "/", "2", "3", " ", "F", "O", "O", " ", "1", ".", "0", "0", " ", "2", ".", "0", "0" >>

\* "001/15/24 FOO 1.00 2.00"
L_Month3 ==
  << "0", "0", "1", "/", "1", "5", "/", "2", "4", " ", "F", "O", "O", " ", "1", ".", "0", "0", " ", "2", ".", "0", "0" >>

\* "1/5/24 FOO 1.00 2.00"
L_Short ==
  << "1", "/", "5", "/", "2", "4", " ", "F", "O", "O", " ", "1", ".", "0", "0", " ", "2", ".", "0", "0" >>

\* "01/15/24"
L_DateOnly ==
  << "0", "1", "/", "1", "5", "/", "2", "4" >>

\* "01/15/24 123"
L_DateCheck ==
  << "0", "1", "/", "1", "5", "/", "2", "4", " ", "1", "2", "3" >>

\* "01/15/24 123 FOO 99.00"
L_CheckAsAmount ==
  << "0", "1", "/", "1", "5", "/", "2", "4", " ", "1", "2", "3", " ", "F", "O", "O", " ", "9", "9", ".", "0", "0" >>

\* "01/15/24 123 45.00 REF 99.00"
L_AmountThenWord ==
  << "0", "1", "/", "1", "5", "/", "2", "4", " ", "1", "2", "3", " ", "4", "5", ".", "0", "0", " ", "R", "E", "F", " ", "9", "9", ".", "0", "0" >>

\* "01/15/24 FOO BAR 9.00"
L_NoAmount ==
  << "0", "1", "/", "1", "5", "/", "2", "4", " ", "F", "O", "O", " ", "B", "A", "R", " ", "9", ".", "0", "0" >>

\* "01/15/24 12A FOO 3.00 4.00"
L_MixedCheck ==
  << "0", "1", "/", "1", "5", "/", "2", "4", " ", "1", "2", "A", " ", "F", "O", "O", " ", "3", ".", "0", "0", " ", "4", ".", "0", "0" >>

\* " 01/15/24  FOO   5.00 6.00 "
L_Spaces ==
  << " ", "0", "1", "/", "1", "5", "/", "2", "4", " ", " ", "F", "O", "O", " ", " ", " ", "5", ".", "0", "0", " ", "6", ".", "0", "0", " " >>

\* "Page 1 of 2"
L_Words ==
  << "P", "a", "g", "e", " ", "1", " ", "o", "f", " ", "2" >>

\* ""
L_Empty ==
  <<  >>

\* "  "
L_Blank ==
  << " ", " " >>

\* "01/15/24 Date Number 5.00 6.00"
L_DateNumber ==
  << "0", "1", "/", "1", "5", "/", "2", "4", " ", "D", "a", "t", "e", " ", "N", "u", "m", "b", "e", "r", " ", "5", ".", "0", "0", " ", "6", ".", "0", "0" >>

\* "01/15/24 FOO BAR 5.00 100.00"
G_FooBar ==
  << "0", "1", "/", "1", "5", "/", "2", "4", " ", "F", "O", "O", " ", "B", "A", "R", " ", "5", ".", "0", "0", " ", "1", "0", "0", ".", "0", "0" >>

\* "01/10/24 FOO BAR -5.00 93.00"
G_FooBarNeg ==
  << "0", "1", "/", "1", "0", "/", "2", "4", " ", "F", "O", "O", " ", "B", "A", "R", " ", "-", "5", ".", "0", "0", " ", "9", "3", ".", "0", "0" >>

\* "01/12/24 FOO BAR BAZ 2.50 90.50"
G_FooBarBaz ==
  << "0", "1", "/", "1", "2", "/", "2", "4", " ", "F", "O", "O", " ", "B", "A", "R", " ", "B", "A", "Z", " ", "2", ".", "5", "0", " ", "9", "0", ".", "5", "0" >>

\* "01/13/24 FOO BAR QUX 88.00"
G_FooBarQux ==
  << "0", "1", "/", "1", "3", "/", "2", "4", " ", "F", "O", "O", " ", "B", "A", "R", " ", "Q", "U", "X", " ", "8", "8", ".", "0", "0" >>

\* "01/14/24 77 FEE 1.25 86.75"
G_Fee ==
  << "0", "1", "/", "1", "4", "/", "2", "4", " ", "7", "7", " ", "F", "E", "E", " ", "1", ".", "2", "5", " ", "8", "6", ".", "7", "5" >>

\* "12/31/23 FEE -3.00 85.50"
G_FeeNeg ==
  << "1", "2", "/", "3", "1", "/", "2", "3", " ", "F", "E", "E", " ", "-", "3", ".", "0", "0", " ", "8", "5", ".", "5", "0" >>

(***************************************************************************)
(* The statements the model runs on                                        *)
(***************************************************************************)

\* most pages of a statement
MaxPages == 2

\* most lines of a statement, all pages together
MaxLines == 4

\* lines that decide where the transactions of a page begin
StructLines == {L_Header, L_Example, L_BadMonth}

\* lines that decide the groups
GroupLines == {G_FooBar, G_FooBarNeg, G_FooBarBaz, G_FooBarQux, G_Fee}

\* lines that decide the fields of one transaction
TokenLines ==
  StructLines \cup GroupLines \cup
  {L_Second, G_FeeNeg, L_BadDay, L_Digits8, L_Digits6, L_Digits4, L_Dashes, L_TwoSegments,
   L_NoDay, L_NoYear, L_Year1999, L_Digits1999, L_Feb30, L_Feb29, L_Month3,
   L_Short, L_DateOnly, L_DateCheck, L_CheckAsAmount, L_AmountThenWord,
   L_NoAmount,
   L_MixedCheck, L_Spaces, L_Words, L_Empty, L_Blank, L_DateNumber}

SeqsUpTo(S, n) == UNION {[1..k -> S] : k \in 0..n}

\* ls cut into pages after the positions of cuts
RECURSIVE Paginate(_, _)
Paginate(ls, cuts) ==
  IF cuts = {} THEN << ls >>
  ELSE LET c == CHOOSE x \in cuts : \A y \in cuts : x <= y
       IN  << SubSeq(ls, 1, c) >> \o
           Paginate(SubSeq(ls, c + 1, Len(ls)), {y - c : y \in cuts \ {c}})

\* every way to lay lines of StructLines out on pages
StructFiles ==
  { << >> } \cup
  UNION { { Paginate(ls, cuts) :
              cuts \in {c \in SUBSET (1..(Len(ls) - 1)) : Cardinality(c) < MaxPages} }
          : ls \in SeqsUpTo(StructLines, MaxLines) \ { << >> } }

\* one page of lines of GroupLines
GroupFiles == { << ls >> : ls \in SeqsUpTo(GroupLines, MaxLines) \ { << >> } }

\* one page of one line
TokenFiles == { << << l >> >> : l \in TokenLines }

\* two statements longer than the bounds allow: one of two pages, the
\* first without a header line, the second with a header line, five
\* valid lines and one with a malformed date; one whose lines form exact
\* and partial groups
ScenarioFiles ==
  { << << L_Words, L_Example >>,
       << L_Header, L_Example, L_Second, G_FooBar, L_Digits4, G_Fee, G_FeeNeg >> >>,
    << << G_FooBar, G_Fee, G_FooBarBaz, G_FooBar, G_FooBarQux, G_FeeNeg,
          L_Example >> >> }

(***************************************************************************)
(* State                                                                   *)
(***************************************************************************)

VARIABLES
  file_exists,             \* os.path.exists(pdf_file)
  open_raises,             \* pdfplumber.open raises
  bad_page,                \* the page whose text cannot be read, 0 for none
  pdf,                     \* the lines of the pages of the file
  pc,                      \* where the run is
  page_no,                 \* the page of the loop over pdf.pages
  line_no,                 \* the line of the loop over lines[start_idx:]
  start_idx,               \* start_idx of the current page
  transactions,            \* the list extract_data_from_pdf builds
  locals,                  \* per transaction: its page, line and the values
                           \* of current_idx and amount_idx when appended
  log,                     \* what was printed, in order
  df,                      \* the sorted data frame
  summary_data,            \* the summary dictionaries
  processed_descriptions,  \* the index labels of the grouped rows
  final_df,                \* the rows handed to to_csv
  csv_written,             \* to_csv was called
  exit_status              \* -1 while running

vars ==
  << file_exists, open_raises, bad_page, pdf, pc, page_no, line_no, start_idx,
     transactions, locals, log, df, summary_data, processed_descriptions,
     final_df, csv_written, exit_status >>

input  == << file_exists, open_raises, bad_page, pdf >>
reader == << page_no, line_no, start_idx >>
result == << df, summary_data, processed_descriptions, final_df, csv_written >>

Init ==
  /\ \/ /\ file_exists = FALSE /\ open_raises = FALSE
        /\ bad_page = 0 /\ pdf = << >>
     \/ /\ file_exists = TRUE /\ open_raises = TRUE
        /\ bad_page = 0 /\ pdf = << >>
     \/ /\ file_exists = TRUE /\ open_raises = FALSE
        /\ pdf \in StructFiles
        /\ bad_page \in 0..Len(pdf)
     \/ /\ file_exists = TRUE /\ open_raises = FALSE
        /\ pdf \in GroupFiles \cup TokenFiles \cup ScenarioFiles
        /\ bad_page = 0
  /\ pc = "main"
  /\ page_no = 0 /\ line_no = 0 /\ start_idx = 0
  /\ transactions = << >> /\ locals = << >> /\ log = << >>
  /\ df = << >> /\ summary_data = << >> /\ processed_descriptions = {}
  /\ final_df = << >> /\ csv_written = FALSE
  /\ exit_status = -1

(***************************************************************************)
(* Steps                                                                   *)
(***************************************************************************)

\* main: if not os.path.exists(pdf_file): sys.exit(1)
Main_CheckExists ==
  /\ pc = "main"
  /\ IF file_exists
     THEN pc' = "open" /\ UNCHANGED << log, exit_status >>
     ELSE pc' = "exit" /\ exit_status' = 1 /\ log' = Append(log, "not found")
  /\ UNCHANGED << input, reader, transactions, locals, result >>

\* with pdfplumber.open(pdf_path) as pdf: an exception ends the function
\* in the outer handler, which returns []
Extract_Open ==
  /\ pc = "open"
  /\ IF open_raises
     THEN pc' = "returned" /\ log' = Append(log, "error") /\ page_no' = page_no
     ELSE pc' = "page" /\ page_no' = 1 /\ log' = log
  /\ UNCHANGED << input, line_no, start_idx, transactions, locals, result,
                  exit_status >>

\* except Exception as e: ... return []: what the function returns when
\* an exception reaches the outer handler, whatever was appended before
OnException_ReturnsPartial(txns) == txns

OnException(txns) == << >>

\* the line after line_no of the current page, or the next page
AfterLine(n) ==
  IF n < Len(pdf[page_no])
  THEN pc' = "line" /\ line_no' = n + 1 /\ page_no' = page_no
  ELSE pc' = "page" /\ line_no' = n /\ page_no' = page_no + 1

\* for page in pdf.pages: the text, its lines and start_idx; a page
\* whose text cannot be read ends the function in the outer handler
Extract_Page ==
  /\ pc = "page"
  /\ page_no <= Len(pdf)
  /\ IF page_no = bad_page
     THEN /\ pc' = "returned"
          /\ transactions' = OnException(transactions)
          /\ locals' = OnException(locals)
          /\ log' = Append(log, "error")
          /\ UNCHANGED reader
     ELSE /\ start_idx' = StartIdx(pdf[page_no])
          /\ AfterLine(StartIdx(pdf[page_no]))
          /\ UNCHANGED << transactions, locals, log >>
  /\ UNCHANGED << input, result, exit_status >>

\* for line in lines[start_idx:]: the body of the loop for one line
Extract_Line ==
  /\ pc = "line"
  /\ LET line == pdf[page_no][line_no]
         r    == LineResult(line)
     IN  /\ IF r.kind = "txn"
            THEN /\ transactions' = Append(transactions, r.txn)
                 /\ locals' = Append(locals,
                      [page        |-> page_no,
                       line        |-> line_no,
                       current_idx |-> CurrentIdx(Split(line)),
                       amount_idx  |-> ScanAmount(Split(line), -2).idx])
                 /\ log' = log
            ELSE /\ UNCHANGED << transactions, locals >>
                 /\ log' = IF r.kind \in {"format", "range", "parse"}
                           THEN Append(log, r.kind) ELSE log
         /\ AfterLine(line_no)
  /\ UNCHANGED << input, start_idx, result, exit_status >>

\* return transactions
Extract_Return ==
  /\ pc = "page"
  /\ page_no > Len(pdf)
  /\ pc' = "returned"
  /\ UNCHANGED << input, reader, transactions, locals, log, result, exit_status >>

\* main: if not transactions: sys.exit(1)
Main_CheckTransactions ==
  /\ pc = "returned"
  /\ IF transactions = << >>
     THEN pc' = "exit" /\ exit_status' = 1 /\ log' = Append(log, "no transactions")
     ELSE pc' = "convert" /\ UNCHANGED << log, exit_status >>
  /\ UNCHANGED << input, reader, transactions, locals, result >>

\* main: the data frame, its conversions and sort_values.  A date that
\* to_datetime rejects raises ValueError, which nothing catches: the
\* interpreter prints the traceback and ends with status 1.
Main_Convert ==
  /\ pc = "convert"
  /\ IF \A i \in 1..Len(transactions) : ToDatetime(transactions[i].Date).ok
     THEN /\ df' = SortValues(MakeFrame(transactions))
          /\ pc' = "exact"
          /\ UNCHANGED << log, exit_status >>
     ELSE /\ pc' = "raised"
          /\ exit_status' = 1
          /\ log' = Append(log, "traceback")
          /\ df' = df
  /\ UNCHANGED << input, reader, transactions, locals, summary_data,
                  processed_descriptions, final_df, csv_written >>

\* main: first pass, exact matches
Main_ExactPass ==
  /\ pc = "exact"
  /\ summary_data' = ExactSummaries(df)
  /\ processed_descriptions' = ExactProcessed(df)
  /\ pc' = "partial"
  /\ UNCHANGED << input, reader, transactions, locals, log, df, final_df,
                  csv_written, exit_status >>

\* main: second pass, partial matches among the remaining rows
Main_PartialPass ==
  /\ pc = "partial"
  /\ LET remaining_df == Remaining(df, processed_descriptions)
     IN  /\ summary_data' = summary_data \o PartialSummaries(remaining_df)
         /\ processed_descriptions' =
              processed_descriptions \cup PartialProcessed(remaining_df)
  /\ pc' = "output"
  /\ UNCHANGED << input, reader, transactions, locals, log, df, final_df,
                  csv_written, exit_status >>

\* main: final_df and to_csv; the function returns and the status is 0
Main_Output ==
  /\ pc = "output"
  /\ \E summary_df \in SortSummary(summary_data) :
        final_df' = FinalFrame(df, summary_df)
  /\ csv_written' = TRUE
  /\ exit_status' = 0
  /\ pc' = "done"
  /\ log' = Append(log, "saved")
  /\ UNCHANGED << input, reader, transactions, locals, df, summary_data,
                  processed_descriptions >>

Next ==
  \/ Main_CheckExists
  \/ Extract_Open
  \/ Extract_Page
  \/ Extract_Line
  \/ Extract_Return
  \/ Main_CheckTransactions
  \/ Main_Convert
  \/ Main_ExactPass
  \/ Main_PartialPass
  \/ Main_Output

Spec == Init /\ [][Next]_vars

\* the run goes on until it ends: the program is one sequential thread
FairSpec == Spec /\ WF_vars(Next)

\* the run has not ended: main or extract_data_from_pdf has a statement
\* to execute, and so a step of Next is possible
Running ==
  pc \in {"main", "open", "page", "line", "returned", "convert", "exact",
          "partial", "output"}

\* FairSpec with the enabling condition of Next written out: WF_vars(Next)
\* is []<>~ENABLED <<Next>>_vars \/ []<><<Next>>_vars, and a step of Next
\* is enabled exactly while the run has not ended
LiveSpec == Spec /\ ([]<>(~Running) \/ []<><<Next>>_vars)

TypeOK ==
  /\ pc \in {"main", "open", "page", "line", "returned", "convert", "exact",
             "partial", "output", "done", "exit", "raised"}
  /\ exit_status \in {-1, 0, 1}
  /\ Len(locals) = Len(transactions)

(***************************************************************************)
(* Properties                                                              *)
(***************************************************************************)

\* the page and the tokens of the line transaction i was made from
PageOf(i)  == pdf[locals[i].page]
PartsOf(i) == Split(pdf[locals[i].page][locals[i].line])

HasHeader(page) == \E h \in 1..Len(page) : IsHeaderLine(page[h])

\* extract_data_from_pdf has just returned
Returned == pc = "returned"

\* ... and no exception cut it short
Extracted == Returned /\ ~open_raises /\ bad_page = 0

C2_EndsByExitOrCsv ==
  pc \in {"exit", "raised", "done"} =>
     \/ /\ pc = "exit" /\ exit_status = 1 /\ ~csv_written
        /\ (~file_exists \/ transactions = << >>)
     \/ pc = "done" /\ csv_written

\* the three numbers of a stored date
DateSegs(i) == SplitOn(transactions[i].Date, "/")

\* the digits of the year as the date token has them
TokenYear(tok) ==
  IF Contains(tok, S_Slash) THEN OnlyDigits(SplitOn(tok, "/")[3])
  ELSE SubSeq(OnlyDigits(tok), 5, Len(OnlyDigits(tok)))

MonthDayOk(i) ==
  /\ Len(DateSegs(i)) = 3
  /\ StrIsDigit(DateSegs(i)[1]) /\ ToInt(DateSegs(i)[1]) \in 1..12
  /\ StrIsDigit(DateSegs(i)[2]) /\ ToInt(DateSegs(i)[2]) \in 1..31

\* C3 as stated: every stored date has month in 1..12, day in 1..31 and a
\* year of at least 2000.
C3_YearAtLeast2000 ==
  \A i \in 1..Len(transactions) :
     /\ MonthDayOk(i)
     /\ StrIsDigit(DateSegs(i)[3]) /\ ToInt(DateSegs(i)[3]) >= 2000

\* C3 amended: every stored date has month in 1..12 and day in 1..31; a
\* year the token gives with two digits is stored as 20YY, a year it gives
\* with any other number of digits is stored as it is (no lower limit).
C3_MonthDayInRange ==
  Returned =>
     \A i \in 1..Len(transactions) :
        /\ MonthDayOk(i)
        /\ LET yy == TokenYear(PartsOf(i)[1])
           IN  IF Len(yy) = 2
               THEN /\ DateSegs(i)[3] = << "2", "0" >> \o yy
                    /\ ToInt(DateSegs(i)[3]) \in 2000..2099
               ELSE DateSegs(i)[3] = yy

\* a Transaction whose stored year is before 2000
C3_Witness ==
  \E i \in 1..Len(transactions) :
     StrIsDigit(DateSegs(i)[3]) /\ ToInt(DateSegs(i)[3]) < 2000

\* the first token of the line at (p, l) is one the claim says is dropped:
\* no digit first, a digit count other than 6 or 8 (no slash), or a month
\* or day out of range
Rejected(p, l) ==
  LET tok == Split(pdf[p][l])[1]
      dig == OnlyDigits(tok)
      seg == SplitOn(tok, "/")
  IN  \/ tok[1] \notin DigitChars
      \/ ~Contains(tok, S_Slash) /\ Len(dig) \notin {6, 8}
      \/ /\ ~Contains(tok, S_Slash) /\ Len(dig) \in {6, 8}
         /\ \/ ToInt(SubSeq(dig, 1, 2)) \notin 1..12
            \/ ToInt(SubSeq(dig, 3, 4)) \notin 1..31
      \/ /\ Len(seg) = 3 /\ OnlyDigits(seg[1]) # << >> /\ OnlyDigits(seg[2]) # << >>
         /\ \/ ToInt(OnlyDigits(seg[1])) \notin 1..12
            \/ ToInt(OnlyDigits(seg[2])) \notin 1..31

\* the lines the loop over lines[start_idx:] reaches and does not pass over
Candidates ==
  {pl \in UNION {{<< p, l >> : l \in 1..Len(pdf[p])} : p \in 1..Len(pdf)} :
     /\ HasHeader(pdf[pl[1]]) =>
           \E h \in 1..(pl[2] - 1) : IsHeaderLine(pdf[pl[1]][h])
     /\ ~IsSkippedLine(pdf[pl[1]][pl[2]])}

\* C4: a line whose first token does not start with a digit, has an
\* unsupported digit count or fails the range check gives no Transaction
\* and stops nothing: once extraction has returned, the Transactions are,
\* in input order, one for each line after the header, on every page, that
\* passed date validation.
C4_BadLinesOnlySkipped ==
  Extracted =>
     /\ \A i \in 1..Len(locals) : ~Rejected(locals[i].page, locals[i].line)
     /\ \A i, j \in 1..Len(locals) :
           i < j => \/ locals[i].page < locals[j].page
                    \/ /\ locals[i].page = locals[j].page
                       /\ locals[i].line < locals[j].line
     /\ {<< locals[i].page, locals[i].line >> : i \in 1..Len(locals)}
          = {pl \in Candidates :
               /\ ~Rejected(pl[1], pl[2])
               /\ NormalizeDate(Split(pdf[pl[1]][pl[2]])[1]).err = "none"}

\* extraction returned; on a page with a header a line with a bad date is
\* followed by a line that gave a Transaction, and a later page gave one
C4_Witness ==
  /\ Extracted
  /\ \E i, j \in 1..Len(locals) :
        /\ locals[i].page < locals[j].page
        /\ HasHeader(PageOf(i))
        /\ \E l \in 1..(locals[i].line - 1) :
              /\ << locals[i].page, l >> \in Candidates
              /\ Rejected(locals[i].page, l)

\* the positions, before the last one, of the tokens of transaction i
\* that parse as a number
NumericBeforeLast(i) ==
  {k \in 1..(Len(PartsOf(i)) - 1) : IsAmountToken(PartsOf(i)[k])}

SetMax(S) == CHOOSE x \in S : \A y \in S : y <= x

\* C5: the amount is the rightmost token before the last one that parses
\* as a number (commas stripped), the scan ending on it; with no such
\* token the amount is unset.
C5_AmountIsFirstNumericFromRight ==
  Returned =>
     \A i \in 1..Len(transactions) :
        IF NumericBeforeLast(i) # {}
        THEN /\ transactions[i].Withdrawals = PartsOf(i)[SetMax(NumericBeforeLast(i))]
             /\ Len(PartsOf(i)) + locals[i].amount_idx + 1 = SetMax(NumericBeforeLast(i))
        ELSE /\ transactions[i].Withdrawals = << >>
             /\ transactions[i].Deposits = << >>
             /\ -locals[i].amount_idx > Len(PartsOf(i))

\* a Transaction whose amount was found after the scan passed a token that
\* is no number, left of which another numeric token stands
C5_Witness ==
  /\ Returned
  /\ \E i \in 1..Len(transactions) :
        /\ Cardinality(NumericBeforeLast(i)) > 1
        /\ locals[i].amount_idx < -2
        /\ transactions[i].Withdrawals # << >>

\* C6 as stated: the description joins, with single spaces, the tokens from
\* the cursor up to the amount token, or up to the last token when the scan
\* found no amount.
C6_DescriptionBetweenCursorAndAmount ==
  Returned =>
     \A i \in 1..Len(transactions) :
        LET parts == PartsOf(i)
            stop  == IF NumericBeforeLast(i) # {}
                     THEN SetMax(NumericBeforeLast(i)) ELSE Len(parts)
        IN  transactions[i].Description =
              Join(SubSeq(parts, locals[i].current_idx + 1, stop - 1), << " " >>)

\* C7: a second token of digits only is the check number and the cursor
\* is 2; otherwise the check number is empty and the cursor is 1.
C7_CheckNumberAndCursor ==
  Returned =>
     \A i \in 1..Len(transactions) :
        LET parts == PartsOf(i)
        IN  IF /\ Len(parts) >= 2
               /\ \A k \in 1..Len(parts[2]) : parts[2][k] \in DigitChars
            THEN transactions[i].Number = parts[2] /\ locals[i].current_idx = 2
            ELSE transactions[i].Number = << >> /\ locals[i].current_idx = 1

\* a Transaction with a check number, the line having more tokens after it
C7_Witness ==
  /\ Returned
  /\ \E i \in 1..Len(transactions) :
        /\ transactions[i].Number # << >>
        /\ locals[i].current_idx = 2
        /\ Len(PartsOf(i)) > 3

\* C8: a found amount is in Withdrawals and Deposits is empty in every
\* Transaction; the deposit total of every summary row is blank.
C8_NoDeposits ==
  /\ Returned =>
        \A i \in 1..Len(transactions) :
           /\ transactions[i].Deposits = << >>
           /\ NumericBeforeLast(i) # {} => transactions[i].Withdrawals # << >>
  /\ \A k \in 1..Len(summary_data) : summary_data[k].Deposits.blank

\* the run is over, with a summary row of Transactions that have amounts
C8_Witness ==
  /\ pc = "done"
  /\ \E k \in 1..Len(summary_data) : ~summary_data[k].Withdrawals.blank
  /\ \E i \in 1..Len(transactions) : transactions[i].Withdrawals # << >>

\* the amount of transaction i in hundredths, 0 when unset
AmountOf(i) ==
  IF transactions[i].Withdrawals = << >> THEN 0
  ELSE ToNumeric(transactions[i].Withdrawals).v

RECURSIVE SumAmounts(_)
SumAmounts(S) ==
  IF S = {} THEN 0
  ELSE LET x == CHOOSE y \in S : TRUE IN AmountOf(x) + SumAmounts(S \ {x})

\* C9 as stated: an exact-match summary row reports the number of
\* Transactions with its description and the sum of their amounts (unset
\* as zero), blank only when the sum is zero, negative amounts included.
C9_ExactCountAndTotal ==
  pc = "done" =>
     \A k \in 1..Len(summary_data) :
        summary_data[k].kind = "exact" =>
           LET members == {i \in 1..Len(transactions) :
                             transactions[i].Description = summary_data[k].key}
               total   == SumAmounts(members)
           IN  /\ summary_data[k].count = Cardinality(members)
               /\ summary_data[k].Withdrawals =
                    [blank |-> total = 0, v |-> total]

\* C10: no Transaction is in an exact-match and in a partial-match summary
\* group, the rows of the exact-match groups not being given to the second
\* pass: the groups of the summary are pairwise disjoint.
C10_GroupsDisjoint ==
  pc \in {"output", "done"} =>
     /\ \A a, b \in 1..Len(summary_data) :
           a # b => summary_data[a].index \cap summary_data[b].index = {}
     /\ \A r \in 1..Len(df) :
           (\E a \in 1..Len(summary_data) :
               summary_data[a].kind = "exact"
               /\ summary_data[a].key = df[r].Description)
           => \A b \in 1..Len(summary_data) :
                 summary_data[b].kind = "partial" => df[r].label \notin summary_data[b].index

\* an exact-match group and a partial-match group whose key is the
\* description of the exact-match group
C10_Witness ==
  /\ pc = "done"
  /\ \E a, b \in 1..Len(summary_data) :
        /\ summary_data[a].kind = "exact"
        /\ summary_data[b].kind = "partial"
        /\ summary_data[a].key = summary_data[b].key

\* the two grouping passes are over
Grouped == pc = "output"

\* the summary rows of one pass
SummaryOf(kind) == SelectSeq(summary_data, LAMBDA r : r.kind = kind)

\* the index labels of the Transactions whose description another
\* Transaction has too: the members of the emitted exact-match groups
Consumed ==
  {i - 1 : i \in {i \in 1..Len(transactions) :
      \E j \in 1..Len(transactions) :
         j # i /\ transactions[j].Description = transactions[i].Description}}

\* the first two words of the description of the Transaction with index
\* label n, the whole description when it has fewer
KeyOf(n) ==
  LET desc  == transactions[n + 1].Description
      words == Split(desc)
  IN  IF Len(words) < 2 THEN desc ELSE words[1] \o << " " >> \o words[2]

\* the Transactions left to the second pass that have the key of n
SameKey(n) ==
  {m \in (0..(Len(transactions) - 1)) \ Consumed : KeyOf(m) = KeyOf(n)}

\* C11: the partial-match pass takes the Transactions of no emitted
\* exact-match group, those with a description of their own included,
\* groups them by their first two words and emits, for every key that two
\* or more of them share, one summary row of precedence 2 whose members,
\* count and totals are those of exactly these Transactions (the totals as
\* main writes a sum: blank unless positive).
C11_PartialGroups ==
  Grouped =>
     /\ \A n \in (0..(Len(transactions) - 1)) \ Consumed :
           Cardinality(SameKey(n)) >= 2 =>
              \E k \in 1..Len(summary_data) :
                 /\ summary_data[k].kind = "partial"
                 /\ summary_data[k].key = KeyOf(n)
                 /\ \A j \in 1..Len(summary_data) :
                       (summary_data[j].kind = "partial"
                        /\ summary_data[j].key = KeyOf(n)) => j = k
     /\ \A k \in 1..Len(summary_data) :
           summary_data[k].kind = "partial" =>
              \E n \in (0..(Len(transactions) - 1)) \ Consumed :
                 /\ summary_data[k].key = KeyOf(n)
                 /\ summary_data[k].index = SameKey(n)
                 /\ summary_data[k].count = Cardinality(SameKey(n))
                 /\ summary_data[k].count >= 2
                 /\ summary_data[k].Sort_Order = 2
                 /\ LET total == SumAmounts({m + 1 : m \in SameKey(n)})
                    IN  summary_data[k].Withdrawals =
                          [blank |-> ~(total > 0), v |-> IF total > 0 THEN total ELSE 0]

\* a partial-match group with a member whose whole description, which no
\* other Transaction has, is the key, and a member that has a third word
C11_Witness ==
  /\ Grouped
  /\ \E k \in 1..Len(summary_data) :
        /\ summary_data[k].kind = "partial"
        /\ \E m, n \in summary_data[k].index :
              /\ transactions[m + 1].Description = summary_data[k].key
              /\ Len(Split(transactions[n + 1].Description)) > 2

\* C12: every summary row, of either pass, has a count of at least 2; a
\* description, or a key of the second pass, that only one Transaction has
\* gives no summary row.
C12_NoGroupOfOne ==
  Grouped =>
     /\ \A k \in 1..Len(summary_data) :
           summary_data[k].count >= 2
           /\ Cardinality(summary_data[k].index) = summary_data[k].count
     /\ \A n \in (0..(Len(transactions) - 1)) \ Consumed :
           /\ \A k \in 1..Len(summary_data) :
                 summary_data[k].kind = "exact" =>
                    summary_data[k].key # transactions[n + 1].Description
           /\ Cardinality(SameKey(n)) = 1 =>
                 \A k \in 1..Len(summary_data) : n \notin summary_data[k].index

\* a summary row next to a Transaction that is alone with its description
\* and with its key
C12_Witness ==
  /\ Grouped
  /\ Len(summary_data) > 0
  /\ \E n \in (0..(Len(transactions) - 1)) \ Consumed : SameKey(n) = {n}

\* the rows of a frame as rows of final_df
AsRows(kind, frame) == [i \in 1..Len(frame) |-> [row |-> kind, data |-> frame[i]]]

\* C13 as stated, for a run with at least one summary row: the rows
\* written are the sorted Transactions, one blank row, the exact-match
\* summary rows and then the partial-match ones, each kind in the order
\* the pass appended them to summary_data.
C13_OutputOrder ==
  (pc = "done" /\ Len(summary_data) > 0) =>
     final_df = AsRows("data", df) \o << [row |-> "blank"] >>
                \o AsRows("summary", SummaryOf("exact"))
                \o AsRows("summary", SummaryOf("partial"))

\* the data rows written, in order
DataRows == SelectSeq(final_df, LAMBDA r : r.row = "data")

\* the day of a converted date, counted in a calendar of 31-day months
DayOf(date) == (date.y * 12 + (date.m - 1)) * 31 + date.d

\* C14: the data rows written are the Transactions, each once, ordered
\* by description ascending and, within one description, by date
\* ascending in calendar order.
C14_RawRowsSorted ==
  pc = "done" =>
    /\ Len(DataRows) = Len(transactions)
    /\ {DataRows[i].data.label : i \in 1..Len(DataRows)} = 0..(Len(transactions) - 1)
    /\ \A i \in 1..Len(DataRows) :
         LET r == DataRows[i].data
             t == transactions[r.label + 1]
         IN  /\ r.Description = t.Description
             /\ r.Date = ToDatetime(t.Date)
    /\ \A i \in 1..(Len(DataRows) - 1) :
         LET a == DataRows[i].data
             b == DataRows[i + 1].data
         IN  \/ StrLess(a.Description, b.Description)
             \/ a.Description = b.Description /\ DayOf(a.Date) <= DayOf(b.Date)

\* two rows of one description are written in calendar order although
\* their date strings compare the other way
C14_Witness ==
  /\ pc = "done"
  /\ \E i \in 1..(Len(DataRows) - 1) :
       LET a == DataRows[i].data
           b == DataRows[i + 1].data
       IN  /\ a.Description = b.Description
           /\ DayOf(a.Date) < DayOf(b.Date)
           /\ StrLess(transactions[b.label + 1].Date, transactions[a.label + 1].Date)

\* opening the file or reading one of its pages raises an exception
Raises == file_exists /\ (open_raises \/ bad_page \in 1..Len(pdf))

\* C15: when opening the file or reading a page raises, the extraction
\* returns the empty list, whatever the pages before had yielded, and
\* main goes nowhere but to its exit with status 1, writing no CSV.
C15_ExceptionDiscardsAll ==
  Raises =>
    /\ pc \in {"main", "open", "page", "line", "returned", "exit"}
    /\ pc = "returned" => transactions = << >>
    /\ pc = "exit" => exit_status = 1
    /\ ~csv_written

\* the second page could not be read after the first had yielded a
\* Transaction, and main has exited
C15_Witness ==
  /\ pc = "exit" /\ exit_status = 1 /\ ~csv_written
  /\ bad_page = 2
  /\ \E j \in (StartIdx(pdf[1]) + 1)..Len(pdf[1]) : LineResult(pdf[1][j]).kind = "txn"

\* C17 as stated: the date comes from index 0, the check number, if any,
\* from index 1, the balance from the last index and the amount, if set,
\* from an index at or after the cursor and before the last one, so no
\* token is both the date or check number and the amount or balance.
C17_FieldsFromDistinctTokens ==
  Returned =>
     \A i \in 1..Len(transactions) :
        LET n      == Len(PartsOf(i))
            cursor == locals[i].current_idx
            amount == n + locals[i].amount_idx
        IN  /\ transactions[i].Number # << >> => transactions[i].Number = PartsOf(i)[2]
            /\ transactions[i].Balance = PartsOf(i)[n]
            /\ cursor <= n - 1
            /\ transactions[i].Withdrawals # << >> =>
                 /\ transactions[i].Withdrawals = PartsOf(i)[amount + 1]
                 /\ cursor <= amount /\ amount < n - 1

\* C18: the Transactions of a partial-match group have pairwise
\* different descriptions, each of two words or more.
C18_PartialMembersDistinct ==
  Grouped =>
     \A k \in 1..Len(summary_data) :
        summary_data[k].kind = "partial" =>
           /\ \A m, n \in summary_data[k].index :
                 m # n => transactions[m + 1].Description # transactions[n + 1].Description
           /\ \A m \in summary_data[k].index :
                 Len(Split(transactions[m + 1].Description)) >= 2

\* a partial-match group was emitted whose key is also the key of two
\* Transactions of one description, which the first pass had taken
C18_Witness ==
  /\ Grouped
  /\ \E k \in 1..Len(summary_data) :
        /\ summary_data[k].kind = "partial"
        /\ \E m, n \in Consumed :
              /\ m # n
              /\ transactions[m + 1].Description = transactions[n + 1].Description
              /\ KeyOf(m) = summary_data[k].key

\* the number of times the scan of Transaction i lowered amount_idx
ScanSteps(i) == -2 - locals[i].amount_idx

\* the scan of Transaction i ended within its n - 1 steps: by break on a
\* numeric token before the last, or with the index one past index 0
ScanEnded(i) ==
  LET n == Len(PartsOf(i))
      a == locals[i].amount_idx
  IN  /\ ScanSteps(i) >= 0
      /\ ScanSteps(i) <= n - 1
      /\ \/ /\ transactions[i].Withdrawals # << >>
            /\ -a <= n
            /\ IsAmountToken(PartsOf(i)[n + a + 1])
         \/ /\ transactions[i].Withdrawals = << >>
            /\ -a = n + 1

\* C19: extraction terminates.  The backward scan of every line that made
\* a Transaction stopped after at most n - 1 steps, on a numeric token or
\* one past index 0, and extract_data_from_pdf, once called, returns.
C19_ExtractionTerminates ==
  /\ [](Returned => \A i \in 1..Len(transactions) : ScanEnded(i))
  /\ (pc = "open" ~> Returned)

\* the function has returned a Transaction of three tokens or more whose
\* scan went over every token down to index 0 and found no number
C19_Witness ==
  /\ Returned
  /\ \E i \in 1..Len(transactions) :
        /\ Len(PartsOf(i)) >= 3
        /\ ScanSteps(i) = Len(PartsOf(i)) - 1
        /\ transactions[i].Withdrawals = << >>

====
